---- MODULE Spec2Model ----
(***************************************************************************)
(* tower-keycloak: the credential lifecycle (auth.rs), the token value     *)
(* object (token.rs) and the tower middleware (service.rs).                *)
(*                                                                         *)
(* Every clone of KeycloakAuth shares one KeycloakAuthInner behind an      *)
(* RwLock.  A readiness probe is two lock sections: the read-locked        *)
(* can_skip_poll_ready check and, when it fails, the write-locked          *)
(* KeycloakAuthInner::poll_ready.  Each lock section is one atomic step.   *)
(***************************************************************************)
EXTENDS Integers, Sequences, FiniteSets, TLC

\* ---------------------------------------------------------------- bounds
MaxFetches == 3
MaxTime == 2
\* bounds of the Token specification (SpecToken): the last instant, and the
\* last instant at which a Token is built
MaxNow == 320
MaxBuildAt == 3

\* ------------------------------------------------------ program constants
EXPIRY_DELTA == 10

\* the clones of one KeycloakAuth handle (#[derive(Clone)]), one per KeycloakService
Clones == {"c1", "c2"}

\* what the token endpoint may answer (client.rs TokenResponse)
TokenTypes == {"Bearer"}
AccessTokens == {"abc123", "xyz789"}
ExpiresInSet == {1, 11}
\* error::Error variants a fetch may resolve to
FetchErrors == {"FetchToken", "HttpRequest"}
\* errors of the wrapped service (the generic T::Error)
InnerErrors == {"InnerErr"}

AUTHORIZATION == "authorization"

\* ------------------------------------------------------------ value shapes
NoToken == [header_value |-> "", expiration |-> 0]
NoOutcome == [kind |-> "none", token_type |-> "", access_token |-> "", expires_in |-> 0, err |-> ""]
OkOutcome(tt, at, ei) == [kind |-> "ok", token_type |-> tt, access_token |-> at, expires_in |-> ei, err |-> ""]
ErrOutcome(e) == [kind |-> "err", token_type |-> "", access_token |-> "", expires_in |-> 0, err |-> e]
Outcomes ==
    {OkOutcome(tt, at, ei) : tt \in TokenTypes, at \in AccessTokens, ei \in ExpiresInSet}
        \cup {ErrOutcome(e) : e \in FetchErrors}

\* the boxed future of State::Fetching / State::Refetching: id 0 is "no future";
\* outcome is what the network has delivered so far, done is "has returned Ready";
\* waker is the task whose Context the last Pending poll registered
NoFut == [id |-> 0, outcome |-> NoOutcome, done |-> FALSE, waker |-> ""]
NewFut(n) == [id |-> n, outcome |-> NoOutcome, done |-> FALSE, waker |-> ""]

\* Poll<Result<()>> and the service-level Poll<Result<(), Error<E>>>
RetNone == [kind |-> "None", tag |-> "", err |-> ""]
RetPending == [kind |-> "Pending", tag |-> "", err |-> ""]
RetOk == [kind |-> "Ok", tag |-> "", err |-> ""]
RetErr(tag, e) == [kind |-> "Err", tag |-> tag, err |-> e]
RetPanic == [kind |-> "Panic", tag |-> "", err |-> ""]

\* ------------------------------------------------------------------ token.rs
\* Instant::checked_duration_since: Some(later - earlier) when later >= earlier
checked_duration_since(later, earlier) ==
    IF later >= earlier THEN [some |-> TRUE, dur |-> later - earlier]
    ELSE [some |-> FALSE, dur |-> 0]

is_expired_unwrap_false(token, t) ==
    LET d == checked_duration_since(token.expiration, t)
    IN IF d.some THEN d.dur < EXPIRY_DELTA ELSE FALSE

\* Token::is_expired: .map(|dur| dur < EXPIRY_DELTA).unwrap_or(true)
is_expired(token, t) ==
    LET d == checked_duration_since(token.expiration, t)
    IN IF d.some THEN d.dur < EXPIRY_DELTA ELSE TRUE

TokenNew_no_space(token_type, access_token, expires_in, t) ==
    [header_value |-> token_type \o access_token, expiration |-> t + expires_in]

\* Token::new: format!("{token_type} {access_token}"), now + expires_in
TokenNew(token_type, access_token, expires_in, t) ==
    [header_value |-> token_type \o " " \o access_token, expiration |-> t + expires_in]

\* ------------------------------------------------------------------- auth.rs
\* State: NotFetched | Fetching{fut} | Refetching{fut, token} | Fetched{token}
StNotFetched == [tag |-> "NotFetched", fut |-> NoFut, token |-> NoToken]
StFetching(f) == [tag |-> "Fetching", fut |-> f, token |-> NoToken]
StRefetching(f, tk) == [tag |-> "Refetching", fut |-> f, token |-> tk]
StFetched(tk) == [tag |-> "Fetched", fut |-> NoFut, token |-> tk]

\* what one pass of the loop of KeycloakAuthInner::poll_ready yields: the new
\* state, the value returned (RetNone: go round the loop again), the number of
\* fetches started so far, and what a future that resolved in this pass returned
Pass(st, ret, n, out, tk) == [state |-> st, ret |-> ret, started |-> n, resolved |-> out, token |-> tk]

\* fut.as_mut().poll(cx) on the async block wrapping new_token(): Pending until
\* the response is there, then Ready once; an async block polled after it has
\* returned Ready panics ("`async fn` resumed after completion").  A Pending
\* poll leaves the waker of cx with the future, in place of the one it held.
poll_fut(fut, t) ==
    IF fut.done THEN [kind |-> "Panic", token |-> NoToken, err |-> ""]
    ELSE IF fut.outcome.kind = "none" THEN [kind |-> "Pending", token |-> NoToken, err |-> ""]
    ELSE IF fut.outcome.kind = "ok"
        THEN [kind |-> "Ok",
              token |-> TokenNew(fut.outcome.token_type, fut.outcome.access_token,
                                 fut.outcome.expires_in, t),
              err |-> ""]
    ELSE [kind |-> "Err", token |-> NoToken, err |-> fut.outcome.err]

can_skip_poll_ready_ignore_expiry(st, t) == st.tag = "Fetched"

\* can_skip_poll_ready: matches!(state, Fetched{token} if !token.is_expired())
can_skip_poll_ready(st, t) ==
    st.tag = "Fetched" /\ ~is_expired(st.token, t)

header_value_pending_outcome(st) ==
    IF st.tag = "Fetched" THEN [ok |-> TRUE, value |-> st.token.header_value]
    ELSE IF st.tag = "Refetching"
        THEN IF st.fut.outcome.kind = "ok"
             THEN [ok |-> TRUE,
                   value |-> st.fut.outcome.token_type \o " " \o st.fut.outcome.access_token]
             ELSE [ok |-> TRUE, value |-> st.token.header_value]
    ELSE [ok |-> FALSE, value |-> ""]

\* header_value: the token of Fetched or Refetching; unreachable!() otherwise
header_value(st) ==
    IF st.tag = "Fetched" THEN [ok |-> TRUE, value |-> st.token.header_value]
    ELSE IF st.tag = "Refetching" THEN [ok |-> TRUE, value |-> st.token.header_value]
    ELSE [ok |-> FALSE, value |-> ""]

HeaderAppend(headers, name, value) == Append(headers, <<name, value>>)

\* HeaderMap::insert: the value replaces every value the name had
HeaderInsert(headers, name, value) ==
    Append(SelectSeq(headers, LAMBDA h : h[1] # name), <<name, value>>)

\* the RwLock around KeycloakAuthInner: who holds a guard
LockFree == [writer |-> "", readers |-> {}]
lock_read(lk, c) == [lk EXCEPT !.readers = @ \cup {c}]
lock_write(lk, c) == [lk EXCEPT !.writer = c]

\* the read guard is a temporary of the `if` condition (poll_ready) or of the
\* insert statement (update_request): dropped when that ends
drop_read(lk, c) == [lk EXCEPT !.readers = @ \ {c}]

drop_write_unless_pending(lk, c, ret) ==
    IF ret.kind = "Pending" THEN lk ELSE [lk EXCEPT !.writer = ""]

\* the write guard is a temporary of the tail expression of
\* KeycloakAuth::poll_ready: dropped before the function returns, whatever
\* the inner poll_ready returned
drop_write(lk, c, ret) == [lk EXCEPT !.writer = ""]

update_request_take_expired(st, headers) ==
    LET hv == header_value(st)
    IN [ok |-> hv.ok,
        headers |-> IF hv.ok THEN HeaderInsert(headers, AUTHORIZATION, hv.value) ELSE headers,
        state |-> IF st.tag = "Fetched" THEN StNotFetched ELSE st]

\* KeycloakAuth::update_request: req.headers_mut().insert(AUTHORIZATION,
\* self.inner.read().header_value()); through the read guard the state is
\* only read
update_request(st, headers) ==
    LET hv == header_value(st)
    IN [ok |-> hv.ok,
        headers |-> IF hv.ok THEN HeaderInsert(headers, AUTHORIZATION, hv.value) ELSE headers,
        state |-> st]

on_not_fetched_return_pending(st, t, n, cx) ==
    Pass(StFetching(NewFut(n + 1)), RetPending, n + 1, NoOutcome, NoToken)

\* arm State::NotFetched: store a new future, loop
on_not_fetched(st, t, n, cx) ==
    Pass(StFetching(NewFut(n + 1)), RetNone, n + 1, NoOutcome, NoToken)

on_fetching_fetch_again(st, t, n, cx) ==
    Pass(StFetching(NewFut(n + 1)), RetPending, n + 1, NoOutcome, NoToken)

\* arm State::Fetching: poll the stored future; Ok installs Fetched, Err
\* returns the error and leaves self.state as it is
on_fetching(st, t, n, cx) ==
    LET p == poll_fut(st.fut, t)
    IN CASE p.kind = "Pending" ->
                Pass([st EXCEPT !.fut.waker = cx], RetPending, n, NoOutcome, NoToken)
         [] p.kind = "Ok" -> Pass(StFetched(p.token), RetOk, n, st.fut.outcome, p.token)
         [] p.kind = "Err" ->
                Pass([st EXCEPT !.fut.done = TRUE], RetErr("", p.err), n, st.fut.outcome, NoToken)
         [] p.kind = "Panic" -> Pass(st, RetPanic, n, NoOutcome, NoToken)

on_refetching_keep_token(st, t, n, cx) ==
    LET p == poll_fut(st.fut, t)
    IN CASE p.kind = "Pending" ->
                Pass([st EXCEPT !.fut.waker = cx], RetPending, n, NoOutcome, NoToken)
         [] p.kind = "Ok" -> Pass(StFetched(st.token), RetOk, n, st.fut.outcome, p.token)
         [] p.kind = "Err" ->
                Pass([st EXCEPT !.fut.done = TRUE], RetErr("", p.err), n, st.fut.outcome, NoToken)
         [] p.kind = "Panic" -> Pass(st, RetPanic, n, NoOutcome, NoToken)

on_refetching_reset_on_err(st, t, n, cx) ==
    LET p == poll_fut(st.fut, t)
    IN CASE p.kind = "Pending" ->
                Pass([st EXCEPT !.fut.waker = cx], RetPending, n, NoOutcome, NoToken)
         [] p.kind = "Ok" -> Pass(StFetched(p.token), RetOk, n, st.fut.outcome, p.token)
         [] p.kind = "Err" -> Pass(StNotFetched, RetErr("", p.err), n, st.fut.outcome, NoToken)
         [] p.kind = "Panic" -> Pass(st, RetPanic, n, NoOutcome, NoToken)

\* arm State::Refetching: as Fetching, the previous token stays in the state
\* until Ok replaces the state by Fetched{new token}
on_refetching(st, t, n, cx) ==
    LET p == poll_fut(st.fut, t)
    IN CASE p.kind = "Pending" ->
                Pass([st EXCEPT !.fut.waker = cx], RetPending, n, NoOutcome, NoToken)
         [] p.kind = "Ok" -> Pass(StFetched(p.token), RetOk, n, st.fut.outcome, p.token)
         [] p.kind = "Err" ->
                Pass([st EXCEPT !.fut.done = TRUE], RetErr("", p.err), n, st.fut.outcome, NoToken)
         [] p.kind = "Panic" -> Pass(st, RetPanic, n, NoOutcome, NoToken)

on_fetched_drop_previous(st, t, n, cx) ==
    IF ~is_expired(st.token, t) THEN Pass(st, RetOk, n, NoOutcome, NoToken)
    ELSE Pass(StRefetching(NewFut(n + 1), NoToken), RetNone, n + 1, NoOutcome, NoToken)

\* arm State::Fetched: Ready(Ok) unless expired; expired stores a new future
\* with a clone of the token, loop
on_fetched(st, t, n, cx) ==
    IF ~is_expired(st.token, t) THEN Pass(st, RetOk, n, NoOutcome, NoToken)
    ELSE Pass(StRefetching(NewFut(n + 1), st.token), RetNone, n + 1, NoOutcome, NoToken)

RECURSIVE inner_poll_ready(_, _, _, _)
\* KeycloakAuthInner::poll_ready: loop { match self.state { ... } }
inner_poll_ready(st, t, n, cx) ==
    LET r == CASE st.tag = "NotFetched" -> on_not_fetched(st, t, n, cx)
               [] st.tag = "Fetching" -> on_fetching(st, t, n, cx)
               [] st.tag = "Refetching" -> on_refetching(st, t, n, cx)
               [] st.tag = "Fetched" -> on_fetched(st, t, n, cx)
    IN IF r.ret = RetNone THEN inner_poll_ready(r.state, t, r.started, cx) ELSE r

\* ---------------------------------------------------------------- service.rs
\* what the wrapped service may answer to poll_ready and to call
InnerReadyRets == {RetPending, RetOk} \cup {RetErr("", e) : e \in InnerErrors}
InnerCallRets == {RetOk} \cup {RetErr("", e) : e \in InnerErrors}

map_err_keycloak(r) == IF r.kind = "Err" THEN RetErr("Keycloak", r.err) ELSE r

\* .map_err(Error::Service)
map_err_service(r) == IF r.kind = "Err" THEN RetErr("Service", r.err) ELSE r

svc_poll_ready_inner_first(auth_ret, inner_ret) ==
    CASE inner_ret.kind # "Ok" -> [svc |-> map_err_service(inner_ret), inner |-> inner_ret]
      [] OTHER -> [svc |-> IF auth_ret.kind = "Err" THEN RetErr("Keycloak", auth_ret.err)
                           ELSE auth_ret,
                   inner |-> inner_ret]

\* KeycloakService::poll_ready: match ready!(auth.poll_ready(cx)) { Ok => inner
\* .poll_ready(cx).map_err(Error::Service), Err(err) => Err(Error::Keycloak(err)) };
\* inner_ret is what the wrapped service answers if it is asked
svc_poll_ready(auth_ret, inner_ret) ==
    CASE auth_ret.kind = "Pending" -> [svc |-> RetPending, inner |-> RetNone]
      [] auth_ret.kind = "Ok" -> [svc |-> map_err_service(inner_ret), inner |-> inner_ret]
      [] auth_ret.kind = "Err" -> [svc |-> RetErr("Keycloak", auth_ret.err), inner |-> RetNone]
      [] auth_ret.kind = "Panic" -> [svc |-> RetPanic, inner |-> RetNone]

\* requests a caller may submit: header lists of <<name, value>>
Requests ==
    { <<>>,
      << <<AUTHORIZATION, "Basic old">> >>,
      << <<AUTHORIZATION, "Basic old">>, <<"accept", "any">>, <<AUTHORIZATION, "Bearer stale">> >> }

\* the values a header list holds for a name, in order
HeaderValues(headers, name) ==
    LET sel == SelectSeq(headers, LAMBDA h : h[1] = name)
    IN [i \in 1..Len(sel) |-> sel[i][2]]

\* a request handed to inner.call: the headers forwarded, and, at the instant
\* of the stamp, the state's tag, whether its future had resolved (a failed
\* fetch), the header of the latest completed credential and the one of this
\* caller's last Ready(Ok)
NotSent == [valid |-> FALSE, headers |-> <<>>, tag |-> "", resolved |-> FALSE,
            ready |-> "", latest |-> ""]

\* -------------------------------------------------------------------- state
VARIABLES
    state,      \* KeycloakAuthInner.state, shared by every clone
    now,        \* Instant::now(), in seconds
    started,    \* fetch futures created so far
    resolved,   \* fetch futures that have returned Ready so far
    lastOk,     \* the latest fetch that returned Ok: its response and its token's header
    crashed,    \* "" or the panic that unwound the thread
    lock,       \* the RwLock: the guards held between two steps
    woken,      \* per clone: its task's waker was called since its last probe began
    locksTaken, \* per clone: the lock sections of its last probe: "", "r" or "rw"
    pc,         \* per clone: "idle", or "write" between the two lock sections
    authRet,    \* per clone: what KeycloakAuth::poll_ready returned in its last probe
    innerRet,   \* per clone: what inner.poll_ready returned in that probe (RetNone: not asked)
    svcRet,     \* per clone: what KeycloakService::poll_ready returned in that probe
    readyTok,   \* per clone: header of the latest completed credential at its last Ready(Ok)
    sent,       \* per clone: the last request handed to inner.call
    callRet,    \* per clone: what the future of its last call resolved to
    innerCallRet, \* per clone: what the wrapped service's own call resolved to
    tok,        \* SpecToken: the Token under test, with the arguments it was built from
    tokExpired  \* SpecToken: the last is_expired() answer for tok

authVars == <<state, started, resolved, lastOk, crashed, lock>>
cloneVars == <<pc, authRet, innerRet, svcRet, readyTok, locksTaken>>
callVars == <<sent, callRet, innerCallRet>>
tokVars == <<tok, tokExpired>>
vars == <<state, now, started, resolved, lastOk, crashed, lock, woken, locksTaken, pc, authRet,
          innerRet, svcRet, readyTok, sent, callRet, innerCallRet, tok, tokExpired>>

NoLastOk == [token_type |-> "", access_token |-> "", header_value |-> ""]
Unchecked == [checked |-> FALSE, ret |-> FALSE]
NoBuilt == [token |-> NoToken, expires_in |-> 0, built |-> 0]

\* KeycloakAuth::new / KeycloakAuthInner::new: State::NotFetched; nothing probed yet
Init ==
    /\ state = StNotFetched
    /\ now = 0
    /\ started = 0
    /\ resolved = 0
    /\ lastOk = NoLastOk
    /\ crashed = ""
    /\ lock = LockFree
    /\ woken = [c \in Clones |-> FALSE]
    /\ locksTaken = [c \in Clones |-> ""]
    /\ pc = [c \in Clones |-> "idle"]
    /\ authRet = [c \in Clones |-> RetNone]
    /\ innerRet = [c \in Clones |-> RetNone]
    /\ svcRet = [c \in Clones |-> RetNone]
    /\ readyTok = [c \in Clones |-> ""]
    /\ sent = [c \in Clones |-> NotSent]
    /\ callRet = [c \in Clones |-> RetNone]
    /\ innerCallRet = [c \in Clones |-> RetNone]
    /\ tok = NoBuilt
    /\ tokExpired = Unchecked

\* the rest of KeycloakService::poll_ready once auth.poll_ready has returned
FinishProbe(c, auth_ret, inner_ret, latest) ==
    LET r == svc_poll_ready(auth_ret, inner_ret)
    IN /\ authRet' = [authRet EXCEPT ![c] = auth_ret]
       /\ innerRet' = [innerRet EXCEPT ![c] = r.inner]
       /\ svcRet' = [svcRet EXCEPT ![c] = r.svc]
       /\ readyTok' = [readyTok EXCEPT ![c] = IF auth_ret.kind = "Ok" THEN latest ELSE @]
       /\ pc' = [pc EXCEPT ![c] = "idle"]

\* KeycloakService::poll_ready -> KeycloakAuth::poll_ready, first lock section:
\* self.inner.read().can_skip_poll_ready(); true returns Ready(Ok) at once
ProbeRead(c) ==
    /\ crashed = ""
    /\ pc[c] = "idle"
    /\ lock.writer = ""
    /\ lock' = drop_read(lock_read(lock, c), c)
    /\ woken' = [woken EXCEPT ![c] = FALSE]
    /\ locksTaken' = [locksTaken EXCEPT ![c] = "r"]
    /\ sent' = [sent EXCEPT ![c] = NotSent]
    /\ callRet' = [callRet EXCEPT ![c] = RetNone]
    /\ innerCallRet' = [innerCallRet EXCEPT ![c] = RetNone]
    /\ IF can_skip_poll_ready(state, now)
       THEN \E ir \in InnerReadyRets : FinishProbe(c, RetOk, ir, lastOk.header_value)
       ELSE /\ pc' = [pc EXCEPT ![c] = "write"]
            /\ authRet' = [authRet EXCEPT ![c] = RetNone]
            /\ innerRet' = [innerRet EXCEPT ![c] = RetNone]
            /\ svcRet' = [svcRet EXCEPT ![c] = RetNone]
            /\ UNCHANGED readyTok
    /\ UNCHANGED <<state, started, resolved, lastOk, crashed, now, tokVars>>

\* second lock section: self.inner.write().poll_ready(cx)
ProbeWrite(c) ==
    /\ crashed = ""
    /\ pc[c] = "write"
    /\ lock = LockFree
    /\ LET r == inner_poll_ready(state, now, started, c)
           ok == r.resolved.kind = "ok"
           latest == IF ok THEN [token_type |-> r.resolved.token_type,
                                 access_token |-> r.resolved.access_token,
                                 header_value |-> r.token.header_value]
                     ELSE lastOk
       IN /\ r.started <= MaxFetches
          /\ state' = r.state
          /\ started' = r.started
          /\ resolved' = IF r.resolved.kind = "none" THEN resolved ELSE resolved + 1
          /\ lastOk' = latest
          /\ crashed' = IF r.ret.kind = "Panic" THEN "resumed after completion" ELSE ""
          /\ lock' = drop_write(lock_write(lock, c), c, r.ret)
          /\ \E ir \in InnerReadyRets : FinishProbe(c, r.ret, ir, latest.header_value)
    /\ locksTaken' = [locksTaken EXCEPT ![c] = "rw"]
    /\ UNCHANGED <<now, woken, callVars, tokVars>>

\* KeycloakService::call, after a probe of this clone returned Ready(Ok):
\* auth.update_request(&mut req), then inner.call(req).map_err(Error::Service)
Call(c) ==
    /\ crashed = ""
    /\ pc[c] = "idle"
    /\ svcRet[c].kind = "Ok"
    /\ lock.writer = ""
    /\ lock' = drop_read(lock_read(lock, c), c)
    /\ \E req \in Requests, ir \in InnerCallRets :
        LET u == update_request(state, req)
        IN /\ state' = u.state
           /\ IF u.ok
              THEN /\ sent' = [sent EXCEPT ![c] =
                           [valid |-> TRUE,
                            headers |-> u.headers,
                            tag |-> state.tag,
                            resolved |-> state.fut.done,
                            ready |-> readyTok[c],
                            latest |-> lastOk.header_value]]
                   /\ innerCallRet' = [innerCallRet EXCEPT ![c] = ir]
                   /\ callRet' = [callRet EXCEPT ![c] = map_err_service(ir)]
                   /\ UNCHANGED crashed
              ELSE /\ crashed' = "unreachable"
                   /\ UNCHANGED callVars
    /\ svcRet' = [svcRet EXCEPT ![c] = RetNone]
    /\ authRet' = [authRet EXCEPT ![c] = RetNone]
    /\ innerRet' = [innerRet EXCEPT ![c] = RetNone]
    /\ locksTaken' = [locksTaken EXCEPT ![c] = ""]
    /\ UNCHANGED <<started, resolved, lastOk, now, woken, pc, readyTok, tokVars>>

\* the token endpoint answers the request of the future in flight (or the
\* request fails): the future will return Ready at its next poll, and the
\* waker it holds is called
NetComplete ==
    /\ crashed = ""
    /\ state.tag \in {"Fetching", "Refetching"}
    /\ ~state.fut.done
    /\ state.fut.outcome.kind = "none"
    /\ \E o \in Outcomes : state' = [state EXCEPT !.fut.outcome = o]
    /\ woken' = [c \in Clones |-> woken[c] \/ c = state.fut.waker]
    /\ UNCHANGED <<now, started, resolved, lastOk, crashed, lock, cloneVars, callVars, tokVars>>

\* a second passes
Tick ==
    /\ crashed = ""
    /\ now < MaxTime
    /\ now' = now + 1
    /\ UNCHANGED <<authVars, woken, cloneVars, callVars, tokVars>>

Next ==
    \/ \E c \in Clones : ProbeRead(c)
    \/ \E c \in Clones : ProbeWrite(c)
    \/ \E c \in Clones : Call(c)
    \/ NetComplete
    \/ Tick

Spec == Init /\ [][Next]_vars

\* ------------------------------------------------------- token.rs on its own
\* lifetimes a token response may carry, and the steps the clock takes
TokenExpiresIn == {0, 1, 9, 10, 11, 300}
TickSteps == {1, 7, 280}

Built(ei, t) == [token |-> TokenNew("Bearer", "abc123", ei, t), expires_in |-> ei, built |-> t]

InitToken ==
    /\ state = StNotFetched
    /\ started = 0
    /\ resolved = 0
    /\ lastOk = NoLastOk
    /\ crashed = ""
    /\ lock = LockFree
    /\ woken = [c \in Clones |-> FALSE]
    /\ locksTaken = [c \in Clones |-> ""]
    /\ pc = [c \in Clones |-> "idle"]
    /\ authRet = [c \in Clones |-> RetNone]
    /\ innerRet = [c \in Clones |-> RetNone]
    /\ svcRet = [c \in Clones |-> RetNone]
    /\ readyTok = [c \in Clones |-> ""]
    /\ sent = [c \in Clones |-> NotSent]
    /\ callRet = [c \in Clones |-> RetNone]
    /\ innerCallRet = [c \in Clones |-> RetNone]
    /\ now = 0
    /\ \E ei \in TokenExpiresIn : tok = Built(ei, 0)
    /\ tokExpired = Unchecked

\* Token::new(token_type, access_token, expires_in) at the current instant
TokNew ==
    /\ now <= MaxBuildAt
    /\ \E ei \in TokenExpiresIn : tok' = Built(ei, now)
    /\ tokExpired' = Unchecked
    /\ UNCHANGED <<authVars, woken, now, cloneVars, callVars>>

\* time passes
TokTick ==
    /\ \E d \in TickSteps : now + d <= MaxNow /\ now' = now + d
    /\ tokExpired' = Unchecked
    /\ UNCHANGED <<authVars, woken, cloneVars, callVars, tok>>

\* token.is_expired() at the current instant
TokCheck ==
    /\ tokExpired' = [checked |-> TRUE, ret |-> is_expired(tok.token, now)]
    /\ UNCHANGED <<authVars, woken, now, cloneVars, callVars, tok>>

NextToken == TokNew \/ TokTick \/ TokCheck

SpecToken == InitToken /\ [][NextToken]_vars

\* ================================================================== claims
InFlight == started - resolved

\* C1: single-flight. However the probes of the clones interleave, at most one
\* fetch is in flight, and the one in flight is the future stored in
\* Fetching/Refetching: a prober that finds it there polls it and starts none.
C1_SingleFlight ==
    /\ InFlight <= 1
    /\ InFlight = 1 =>
        /\ state.tag \in {"Fetching", "Refetching"}
        /\ ~state.fut.done
        /\ state.fut.id = started

\* both clones went through the write lock while the one fetch was in flight
C1_Witness ==
    /\ started = 1
    /\ resolved = 0
    /\ \A c \in Clones : authRet[c].kind = "Pending"

\* C2 (as claimed): the step in which a probe reports a fetch failure leaves
\* the lifecycle in NotFetched.
C2_FailureResetsToNotFetched ==
    [][\A c \in Clones :
        (authRet[c].kind # "Err" /\ authRet'[c].kind = "Err") => state'.tag = "NotFetched"]_vars

\* C3 (as claimed): no fetch future is polled after it has resolved.
C3_NeverPollResolved == crashed # "resumed after completion"

IssuedHeaders == {tt \o " " \o at : tt \in TokenTypes, at \in AccessTokens}

\* C4: every request handed to the inner service carries exactly one
\* Authorization header, a credential's header, whatever it carried before.
C4_ForwardedStamped ==
    \A c \in Clones : sent[c].valid =>
        /\ Len(HeaderValues(sent[c].headers, AUTHORIZATION)) = 1
        /\ HeaderValues(sent[c].headers, AUTHORIZATION)[1] \in IssuedHeaders

\* a forwarded request that came in with two Authorization headers (the one
\* request that also carries an accept header)
C4_Witness ==
    \E c \in Clones :
        /\ sent[c].valid
        /\ HeaderValues(sent[c].headers, "accept") = <<"any">>

\* C5: in Fetched, the header a stamp writes is "<tokenType> <accessToken>" of
\* the response of the latest fetch that succeeded (the refresh's, after a refresh).
C5_StampEqualsResponse ==
    state.tag = "Fetched" =>
        header_value(state) =
            [ok |-> TRUE, value |-> lastOk.token_type \o " " \o lastOk.access_token]

\* a request stamped in Fetched after a refresh that brought another token than
\* the one some clone saw at its last Ready
C5_Witness ==
    /\ state.tag = "Fetched"
    /\ started >= 2
    /\ \E c \in Clones : readyTok[c] # "" /\ readyTok[c] # lastOk.header_value
    /\ \E c \in Clones : sent[c].valid /\ sent[c].tag = "Fetched"
                            /\ sent[c].latest = lastOk.header_value

\* C6: in Refetching a stamp writes the header of the previous credential (the
\* latest one whose fetch completed), also once the refresh's response has
\* arrived and has not been polled yet.
C6_RefetchingStampsPrevious ==
    state.tag = "Refetching" =>
        header_value(state) = [ok |-> TRUE, value |-> lastOk.header_value]

\* a request stamped during Refetching, the refresh's response (another token)
\* being there and not yet polled
C6_Witness ==
    /\ state.tag = "Refetching"
    /\ state.fut.outcome.kind = "ok"
    /\ ~state.fut.done
    /\ state.fut.outcome.access_token # lastOk.access_token
    /\ \E c \in Clones : sent[c].valid /\ sent[c].tag = "Refetching"

\* C8 (as claimed): a stamped request carries the latest completed credential
\* as of the caller's last Ready observation.
C8_StampIsCredentialAtReady ==
    \A c \in Clones : sent[c].valid =>
        HeaderValues(sent[c].headers, AUTHORIZATION) = <<sent[c].ready>>

\* C8 (amended): a stamped request carries the latest completed credential as
\* of the stamp itself.
C8_StampIsLatestCompleted ==
    \A c \in Clones : sent[c].valid =>
        HeaderValues(sent[c].headers, AUTHORIZATION) = <<sent[c].latest>>

\* a stamp after another clone's probe installed a credential the caller had
\* not seen at its Ready
C8_Witness ==
    \E c \in Clones : sent[c].valid /\ sent[c].ready # sent[c].latest

\* C9: the middleware reports Ready(Ok) only if, in that probe, the handle and
\* then the inner service reported Ready(Ok); while the handle reports NotReady
\* the middleware reports NotReady and the inner service is not asked.
C9_ReadyOnlyWhenBoth ==
    \A c \in Clones :
        /\ svcRet[c].kind = "Ok" => authRet[c].kind = "Ok" /\ innerRet[c].kind = "Ok"
        /\ authRet[c].kind = "Pending" => svcRet[c] = RetPending /\ innerRet[c] = RetNone

\* one clone Ready(Ok), the other told NotReady by the handle
C9_Witness ==
    \E c, d \in Clones : svcRet[c].kind = "Ok" /\ authRet[d].kind = "Pending"

\* C10: a fetch failure comes out of the middleware's probe as Error::Keycloak,
\* an inner-service error (readiness or call) as Error::Service, never the
\* other way round, and a failing probe does not report Ready(Ok).
C10_ErrorsTaggedByOrigin ==
    \A c \in Clones :
        /\ authRet[c].kind = "Err" => svcRet[c] = RetErr("Keycloak", authRet[c].err)
        /\ innerRet[c].kind = "Err" => svcRet[c] = RetErr("Service", innerRet[c].err)
        /\ innerCallRet[c].kind = "Err" => callRet[c] = RetErr("Service", innerCallRet[c].err)
        /\ svcRet[c].tag = "Keycloak" => authRet[c].kind = "Err" /\ innerRet[c] = RetNone
        /\ svcRet[c].tag = "Service" => authRet[c].kind = "Ok" /\ innerRet[c].kind = "Err"
        /\ callRet[c].kind = "Err" => callRet[c].tag = "Service" /\ innerCallRet[c].kind = "Err"

\* a credential error at one clone, an inner-service call error at the other
C10_Witness ==
    \E c, d \in Clones : svcRet[c].tag = "Keycloak" /\ callRet[d].tag = "Service"

\* C7 (SpecToken): is_expired is true when fewer than EXPIRY_DELTA seconds remain
\* or the expiry is not after now, false when more remain; a token built with
\* expires_in = 300 is not expired when built and is once fewer than 10 s remain.
C7_BufferedExpiry ==
    tokExpired.checked =>
        /\ (tok.token.expiration - now < 10 \/ tok.token.expiration <= now) => tokExpired.ret
        /\ tok.token.expiration - now > 10 => ~tokExpired.ret
        /\ tok.expires_in = 300 =>
            /\ now = tok.built => ~tokExpired.ret
            /\ (tok.built + 300) - now < 10 => tokExpired.ret

\* a token built with 300 s, checked after its expiry has passed
C7_Witness ==
    /\ tokExpired.checked
    /\ tok.expires_in = 300
    /\ now > tok.token.expiration
    /\ tokExpired.ret

\* C11 (as claimed): when fetches have failed and none has succeeded, the next
\* probe finds NotFetched and starts one new fetch (NotFetched -> Fetching), so
\* two failures and a success take three fetches and three probes.
C11_RetryAfterFailure ==
    [][\A c \in Clones :
        (ProbeWrite(c) /\ resolved >= 1 /\ resolved = started /\ lastOk = NoLastOk)
            => /\ started' = started + 1
               /\ state'.tag = "Fetching"
               /\ authRet'[c].kind = "Pending"]_vars

\* C12: a credential with fewer than 10 s to live is installed with Ready(Ok);
\* the next probe does not take the fast path: its write section moves Fetched
\* to Refetching, keeps that credential as the previous one, starts exactly one
\* refresh and reports NotReady.
C12_ShortLivedRefreshedAtOnce ==
    [][\A c \in Clones :
        /\ (ProbeWrite(c) /\ state.tag # "Fetched" /\ state'.tag = "Fetched")
            => authRet'[c] = RetOk
        /\ (ProbeRead(c) /\ state.tag = "Fetched" /\ state.token.expiration < now + 10)
            => pc'[c] = "write" /\ authRet'[c] = RetNone
        /\ (ProbeWrite(c) /\ state.tag = "Fetched" /\ state.token.expiration < now + 10)
            => /\ state'.tag = "Refetching"
               /\ state'.token = state.token
               /\ started' = started + 1
               /\ state'.fut.id = started'
               /\ authRet'[c] = RetPending]_vars

\* the refresh started in the very second in which the 1-second credential
\* was installed
C12_Witness ==
    /\ state.tag = "Refetching"
    /\ started = 2
    /\ now = 0
    /\ state.token.expiration = 1
    /\ state.token.header_value = lastOk.header_value

\* C13: a probe that finds Fetched with a credential that is not expired
\* reports Ready(Ok) from the read lock section alone: no write lock, no fetch
\* started, the lifecycle unchanged.  In every other state (NotFetched,
\* Fetching, Refetching, Fetched and expired) the fast-path check is false and
\* the probe goes on to the write lock.
C13_FastPath ==
    [][\A c \in Clones : ProbeRead(c) =>
        IF state.tag = "Fetched" /\ state.token.expiration >= now + 10
        THEN /\ can_skip_poll_ready(state, now)
             /\ authRet'[c] = RetOk
             /\ pc'[c] = "idle"
             /\ locksTaken'[c] = "r"
             /\ state' = state
             /\ started' = started
             /\ lock' = LockFree
        ELSE /\ ~can_skip_poll_ready(state, now)
             /\ pc'[c] = "write"
             /\ authRet'[c] = RetNone]_vars

\* one clone installed the credential through the write lock, the other was
\* told Ready(Ok) having taken the read lock only
C13_Witness ==
    /\ state.tag = "Fetched"
    /\ started = 1
    /\ \E c, d \in Clones :
        /\ locksTaken[c] = "rw" /\ authRet[c] = RetOk
        /\ locksTaken[d] = "r" /\ authRet[d] = RetOk

\* C14: a stamp (update_request) leaves the lifecycle state, the stored future
\* and the stored credential as they were and holds no lock afterwards; the
\* tag or the credential of the state change only in the write section of a
\* probe, and a credential is installed only by the poll that completes a fetch.
C14_OnlyProbesChangeState ==
    [][/\ \A c \in Clones : Call(c) =>
            /\ state' = state
            /\ started' = started
            /\ resolved' = resolved
            /\ lastOk' = lastOk
            /\ lock' = LockFree
       /\ (state'.tag # state.tag \/ state'.token # state.token)
            => \E c \in Clones : ProbeWrite(c)
       /\ (state'.tag = "Fetched" /\ state' # state)
            => /\ state.tag \in {"Fetching", "Refetching"}
               /\ state.fut.outcome.kind = "ok"
               /\ ~state.fut.done
               /\ resolved' = resolved + 1]_vars

\* a request was stamped while a refresh was in flight, and the refresh is
\* still stored and in flight
C14_Witness ==
    /\ state.tag = "Refetching"
    /\ InFlight = 1
    /\ state.fut.outcome.kind = "none"
    /\ \E c \in Clones : sent[c].valid /\ sent[c].tag = "Refetching"

\* C15: a probe reports NotReady only with Fetching or Refetching in the state
\* and its unresolved future stored, polled in that probe with the prober's
\* context; a probe that found NotFetched or an expired Fetched has started
\* that fetch itself, in the same probe.
C15_SuspendsOnlyOnStoredFetch ==
    [][\A c \in Clones : (ProbeWrite(c) /\ authRet'[c].kind = "Pending") =>
        /\ state'.tag \in {"Fetching", "Refetching"}
        /\ state'.fut.id = started'
        /\ ~state'.fut.done
        /\ state'.fut.waker = c
        /\ state.tag = "NotFetched" => state'.tag = "Fetching" /\ started' = started + 1
        /\ state.tag = "Fetched" => state'.tag = "Refetching" /\ started' = started + 1
        /\ state.tag \in {"Fetching", "Refetching"}
            => state'.tag = state.tag /\ started' = started]_vars

\* a probe that found the credential expired was told NotReady with the refresh
\* it started stored
C15_Witness ==
    /\ state.tag = "Refetching"
    /\ started = 2
    /\ state.fut.outcome.kind = "none"
    /\ \E c \in Clones : authRet[c] = RetPending /\ state.fut.waker = c

\* C16: no probe and no stamp returns holding a guard of the RwLock: between
\* any two steps the lock is free, also while a fetch is in flight and the
\* prober was told NotReady.
C16_NoLockHeldAcrossSteps ==
    /\ lock.writer = ""
    /\ lock.readers = {}

\* a prober took the write lock and was told NotReady, the refresh is in
\* flight, and the other clone has stamped a request meanwhile
C16_Witness ==
    /\ InFlight = 1
    /\ \E c, d \in Clones :
        /\ c # d
        /\ locksTaken[c] = "rw" /\ authRet[c] = RetPending
        /\ sent[d].valid /\ sent[d].tag = "Refetching"

\* C17: whenever a clone whose last probe reported Ready(Ok) may stamp, the
\* state is Fetched or Refetching, and no stamp has reached the invalid-state
\* branch of header_value, whatever the other clone's probes did in between
\* (an expired credential, a refresh that failed).
C17_StampNeverInvalid ==
    /\ crashed # "unreachable"
    /\ \A c \in Clones : (authRet[c] = RetOk /\ pc[c] = "idle") =>
        /\ state.tag \in {"Fetched", "Refetching"}
        /\ header_value(state).ok

\* a clone stamped after the other clone's refresh had failed
C17_Witness ==
    \E c, d \in Clones :
        /\ c # d
        /\ authRet[d].kind = "Err"
        /\ sent[c].valid /\ sent[c].tag = "Refetching" /\ sent[c].resolved

\* the scheduler keeps probing (a probe that can run does run), the network
\* answers every request, and the token source succeeds again and again when
\* asked again and again
SpecLive ==
    /\ Init
    /\ [][Next]_vars
    /\ \A c \in Clones : WF_vars(ProbeRead(c)) /\ WF_vars(ProbeWrite(c))
    /\ WF_vars(NetComplete)
    /\ SF_vars(NetComplete /\ state'.fut.outcome.kind = "ok")

\* C18 (as claimed, SpecLive): after a failed fetch, with probes kept coming and
\* a token source that ends up succeeding, some probe reports Ready(Ok) with
\* the state Fetched.
C18_RecoversAfterFailure ==
    (\E c \in Clones : authRet[c].kind = "Err")
        ~> (state.tag = "Fetched" /\ \E c \in Clones : authRet[c] = RetOk)

\* C19 (as claimed): a clone that was told NotReady by the handle has had its
\* waker called once the fetch it was waiting for has resolved.
C19_NoLostWakeup ==
    \A c \in Clones :
        (/\ authRet[c] = RetPending
         /\ pc[c] = "idle"
         /\ ~(state.tag \in {"Fetching", "Refetching"} /\ state.fut.outcome.kind = "none"))
            => woken[c]

====
